---- MODULE Spec2Model ----
(***************************************************************************)
(* Model of the custom Next.js server (server.js, src/unnamed/part_001):   *)
(* configuration resolution from the environment, startup (prepare, bind), *)
(* per-request delegation with error isolation, and the signal-driven      *)
(* shutdown with its 10 s forced exit.  The Node.js runtime calls the      *)
(* script makes (parseInt, server.listen, server.close, setTimeout,        *)
(* process.exit) are modelled by what they do.  The active-index store of  *)
(* the client (src/store/useActiveIndexStore.js) is modelled beside it.    *)
(***************************************************************************)
EXTENDS Integers, Sequences, FiniteSets, TLC

VARIABLES
    envNODE_ENV,   \* process.env.NODE_ENV : [defined, value (string)]
    envHOSTNAME,   \* process.env.HOSTNAME : [defined, value (string)]
    envPORT,       \* process.env.PORT     : [defined, value (sequence of characters)]
    dev,           \* const dev      (line 58)
    hostname,      \* const hostname (line 59)
    port,          \* const port     (line 60) : [nan, n]
    appHostname,   \* the hostname option given to next() (line 65)
    pc,            \* process entry: "preparing", "started", "failed"
    server,        \* http server: "none", "binding", "listening", "closing"
    boundHost,     \* host the listening socket is bound to ("" while unbound)
    boundPort,     \* port the listening socket is bound to (-1 while unbound)
    handlers,      \* TRUE once process.on('SIGTERM'/'SIGINT') are registered
    conn,          \* per connection slot: "none", "open", "busy"
    handler,       \* per connection slot: "idle", "awaiting" (inside await handle)
    res,           \* per connection slot: the response of its latest request
    closeCallbacks,\* callbacks registered on the server's 'close' event
    timers,        \* pending grace timers (setTimeout 10000), oldest first; each is
                   \* named by the ordinal of the signal whose shutdown() armed it
    signals,       \* termination signals delivered so far
    drainStart,    \* history: shutdown state and requests in flight at the first shutdown()
    alive,         \* the process is running
    exits,         \* the process.exit calls made: sequence of [code, via]
    logged,        \* the diagnostic events written so far
    store,         \* the state object of useActiveIndexStore: field name -> value
    calls          \* history: the arguments of the setActiveIndex calls, in order

cfgVars == <<envNODE_ENV, envHOSTNAME, envPORT, dev, hostname, port, appHostname>>
srvVars == <<pc, server, boundHost, boundPort, handlers>>
reqVars == <<conn, handler, res>>
sdVars  == <<closeCallbacks, timers, signals, drainStart>>
prVars  == <<alive, exits, logged>>
storeVars == <<store, calls>>
vars    == <<cfgVars, srvVars, reqVars, sdVars, prVars, storeVars>>

(***************************************************************************)
(* Bounds of the model.                                                    *)
(***************************************************************************)
MaxConns   == 2   \* connection slots
MaxSignals == 2   \* termination signals delivered in one run
MaxCalls   == 3   \* setActiveIndex calls made in one run

Conns == 1..MaxConns

(***************************************************************************)
(* Program constants.                                                      *)
(***************************************************************************)
DefaultPort   == 3000
DefaultHost   == "0.0.0.0"
DevHost       == "localhost"

(***************************************************************************)
(* Environment values.                                                     *)
(***************************************************************************)
UndefinedStr == [defined |-> FALSE, value |-> ""]
Str(s)       == [defined |-> TRUE, value |-> s]
UndefinedSeq == [defined |-> FALSE, value |-> <<>>]
Chars(s)     == [defined |-> TRUE, value |-> s]

\* JavaScript  v || d
OrDefault(v, d) == IF v.defined /\ Len(v.value) > 0 THEN v.value ELSE d
OrDefaultStr(v, d) == IF v.defined /\ v.value # "" THEN v.value ELSE d

(***************************************************************************)
(* parseInt(string, 10) and Number -> string.                              *)
(***************************************************************************)
Digits == <<"0", "1", "2", "3", "4", "5", "6", "7", "8", "9">>

IsDigit(ch) == \E i \in 1..10 : Digits[i] = ch

DigitVal(ch) == (CHOOSE i \in 1..10 : Digits[i] = ch) - 1

IsSpace(ch) == ch = " "

NaN    == [nan |-> TRUE, n |-> 0]
Num(n) == [nan |-> FALSE, n |-> n]

RECURSIVE SkipSpace(_)
SkipSpace(s) ==
    IF Len(s) > 0 /\ IsSpace(Head(s)) THEN SkipSpace(Tail(s)) ELSE s

\* the longest prefix of digits of s, as a number; acc is the value so far
RECURSIVE DigitPrefix(_, _)
DigitPrefix(s, acc) ==
    IF Len(s) > 0 /\ IsDigit(Head(s))
    THEN DigitPrefix(Tail(s), acc * 10 + DigitVal(Head(s)))
    ELSE acc

\* parseInt(string, 8)
RECURSIVE OctalPrefix(_, _)
OctalPrefix(s, acc) ==
    IF Len(s) > 0 /\ IsDigit(Head(s)) /\ DigitVal(Head(s)) < 8
    THEN OctalPrefix(Tail(s), acc * 8 + DigitVal(Head(s)))
    ELSE acc

ParseIntRadix8(s) ==
    LET t == SkipSpace(s)
    IN  IF Len(t) > 0 /\ IsDigit(Head(t)) /\ DigitVal(Head(t)) < 8
        THEN Num(OctalPrefix(t, 0))
        ELSE NaN

ParseInt(s) ==
    LET t    == SkipSpace(s)
        neg  == Len(t) > 0 /\ Head(t) = "-"
        sgn  == Len(t) > 0 /\ Head(t) \in {"-", "+"}
        body == IF sgn THEN Tail(t) ELSE t
    IN  IF Len(body) > 0 /\ IsDigit(Head(body))
        THEN Num((IF neg THEN -1 ELSE 1) * DigitPrefix(body, 0))
        ELSE NaN

\* String(n) for a non-negative integer
RECURSIVE NumberToString(_)
NumberToString(n) ==
    IF n < 10 THEN <<Digits[n + 1]>>
    ELSE Append(NumberToString(n \div 10), Digits[(n % 10) + 1])

(***************************************************************************)
(* Configuration (lines 58-66).                                            *)
(***************************************************************************)
ResolveDevUnsetIsProduction(nodeEnv) == nodeEnv.defined /\ nodeEnv.value # "production"

ResolveDev(nodeEnv) == ~(nodeEnv.defined /\ nodeEnv.value = "production")

ResolveHostnameLocalDefault(h) == OrDefaultStr(h, "localhost")

ResolveHostname(h) == OrDefaultStr(h, DefaultHost)

ResolvePort(p) == ParseInt(OrDefault(p, NumberToString(DefaultPort)))

AppHostnameAlwaysHost(d, h) == h

AppHostname(d, h) == IF d THEN DevHost ELSE h

\* server.listen(port, ...) rejects a port that is not an integer in 0..65535
\* by throwing synchronously; port 0 asks the system for a free port
ValidPort(p) == ~p.nan /\ p.n >= 0 /\ p.n <= 65535

EphemeralPorts == {49152}

(***************************************************************************)
(* The environments considered.                                            *)
(***************************************************************************)
PortSamples == {1, 9, 10, 80, 443, 3000, 8080, 65535}

PortStrings ==
    {NumberToString(n) : n \in PortSamples} \cup
    { <<>>, <<"0">>, <<"a", "b", "c">>, <<"8", "0", "a", "b", "c">>,
      <<"6", "5", "5", "3", "6">>, <<"-", "1">>, <<" ", "8", "0">>,
      <<"0", "0", "8", "0">>, <<"+", "8", "0">> }

AllNodeEnvs  == {UndefinedStr, Str(""), Str("production"), Str("development"), Str("test")}
AllHostnames == {UndefinedStr, Str(""), Str("example.com"), Str("127.0.0.1")}
AllPorts     == {UndefinedSeq} \cup {Chars(s) : s \in PortStrings}

RunNodeEnvs  == {Str("production")}
RunHostnames == {UndefinedStr}
RunPorts     == {UndefinedSeq, Chars(<<"a", "b", "c">>)}

NoResponse == [headersSent |-> FALSE, sentStatus |-> 0, finished |-> FALSE,
               threw |-> FALSE]

NoDrain == [state |-> "none", inFlight |-> 0]

(***************************************************************************)
(* The active-index store (useActiveIndexStore.js).  JavaScript values are *)
(* records of one shape so that any two of them can be compared.           *)
(***************************************************************************)
JsNumber(n)      == [kind |-> "number", n |-> n, s |-> ""]
JsString(str)    == [kind |-> "string", n |-> 0, s |-> str]
JsFunction(name) == [kind |-> "function", n |-> 0, s |-> name]
JsUndefined      == [kind |-> "undefined", n |-> 0, s |-> ""]

InitialActiveIndex == 2

\* the arguments setActiveIndex is called with: indexes in and out of any
\* range a caller may have in mind, and values that are no number at all
IndexArgs ==
    {JsNumber(-1), JsNumber(0), JsNumber(InitialActiveIndex), JsNumber(7),
     JsString("2"), JsUndefined}

\* the object the creator function returns: the store's first state
CreateStore ==
    [f \in {"activeIndex", "setActiveIndex"} |->
        IF f = "activeIndex" THEN JsNumber(InitialActiveIndex)
        ELSE JsFunction("setActiveIndex")]

\* the object literal { activeIndex: index }
Partial(index) == [f \in {"activeIndex"} |-> index]

\* set(partial, true): the partial object becomes the state
SetStateReplace(state, partial) == partial

\* set(partial): the state becomes Object.assign({}, state, partial)
SetState(state, partial) ==
    [f \in DOMAIN state \cup DOMAIN partial |->
        IF f \in DOMAIN partial THEN partial[f] ELSE state[f]]

\* the module's top level registers no signal handler: process.on is called
\* inside the .then callback only
HandlersAtLoadEarly == TRUE

HandlersAtLoad == FALSE

\* the state once the module's top level has run up to app.prepare()
InitWith(nodeEnvs, hostnames, ports) ==
    /\ envNODE_ENV \in nodeEnvs
    /\ envHOSTNAME \in hostnames
    /\ envPORT \in ports
    /\ dev = ResolveDev(envNODE_ENV)
    /\ hostname = ResolveHostname(envHOSTNAME)
    /\ port = ResolvePort(envPORT)
    /\ appHostname = AppHostname(dev, hostname)
    /\ pc = "preparing"
    /\ server = "none"
    /\ boundHost = ""
    /\ boundPort = -1
    /\ handlers = HandlersAtLoad
    /\ conn = [c \in Conns |-> "none"]
    /\ handler = [c \in Conns |-> "idle"]
    /\ res = [c \in Conns |-> NoResponse]
    /\ closeCallbacks = 0
    /\ timers = <<>>
    /\ signals = 0
    /\ drainStart = NoDrain
    /\ alive = TRUE
    /\ exits = <<>>
    /\ logged = {}
    /\ store = CreateStore
    /\ calls = <<>>

Init == InitWith(RunNodeEnvs, RunHostnames, RunPorts)

InitConfig == InitWith(AllNodeEnvs, AllHostnames, AllPorts)

InitStore == InitWith(RunNodeEnvs, RunHostnames, {UndefinedSeq})

(***************************************************************************)
(* process.exit and console output.                                        *)
(***************************************************************************)
ProcessExitCodeOnly(code, via) ==
    /\ alive' = alive
    /\ exits' = Append(exits, [code |-> code, via |-> via])

ProcessExit(code, via) ==
    /\ alive' = FALSE
    /\ exits' = Append(exits, [code |-> code, via |-> via])

Log(events) == logged' = logged \cup events

(***************************************************************************)
(* Startup (lines 72-94, 113-116).                                         *)
(***************************************************************************)
\* a chain with the .catch before the .then: the failure is logged and the
\* server is started all the same
PrepareRejectedStartsAnyway ==
    /\ alive /\ pc = "preparing"
    /\ pc' = "failed"
    /\ Log({"error_starting"})
    /\ server' = "binding"
    /\ handlers' = TRUE
    /\ UNCHANGED <<storeVars, cfgVars, boundHost, boundPort, reqVars, sdVars, alive, exits>>

\* app.prepare() rejects: the .catch callback logs and exits 1
PrepareRejected ==
    /\ alive /\ pc = "preparing"
    /\ pc' = "failed"
    /\ Log({"error_starting"})
    /\ ProcessExit(1, "catch")
    /\ UNCHANGED <<storeVars, cfgVars, server, boundHost, boundPort, handlers, reqVars, sdVars>>

\* app.prepare() resolves: the .then callback creates the server, calls
\* listen, and registers the signal handlers; a throw inside it (listen's
\* port validation) rejects the chain and runs the .catch callback
PrepareResolved ==
    /\ alive /\ pc = "preparing"
    /\ IF ValidPort(port)
       THEN /\ pc' = "started"
            /\ server' = "binding"
            /\ handlers' = TRUE
            /\ UNCHANGED <<prVars>>
       ELSE /\ pc' = "failed"
            /\ Log({"error_starting"})
            /\ ProcessExit(1, "catch")
            /\ UNCHANGED <<server, handlers>>
    /\ UNCHANGED <<storeVars, cfgVars, boundHost, boundPort, reqVars, sdVars>>

\* the requests whose handler is executing (inside await handle)
InFlight == {c \in Conns : handler[c] = "awaiting"}

\* the shutdown state of the design, read off the program's state
ShutdownState ==
    IF Len(exits) > 0 THEN "Terminated"
    ELSE IF closeCallbacks > 0 THEN "Draining"
    ELSE IF server = "listening" THEN "Running"
    ELSE "Starting"

\* 'close' has been scheduled for emission (process.nextTick): the listening
\* handle is gone and no connection is left; it runs before any other event
Drained ==
    /\ alive /\ closeCallbacks > 0
    /\ server # "listening"
    /\ \A c \in Conns : conn[c] = "none"

BindHost == hostname

\* the socket is bound: the 'listening' event runs the listen callback with
\* no argument, which logs the two ready lines
BindSuccess ==
    /\ alive /\ server = "binding" /\ ~Drained
    /\ server' = "listening"
    /\ boundHost' = BindHost
    /\ boundPort' \in (IF port.n = 0 THEN EphemeralPorts ELSE {port.n})
    /\ Log({"ready"})
    /\ UNCHANGED <<storeVars, cfgVars, pc, handlers, reqVars, sdVars, alive, exits>>

\* the bind fails (EADDRINUSE, EACCES, ...): the server emits 'error'; the
\* listen callback is a 'listening' listener only, so nothing handles the
\* event and the process dies of the uncaught exception with status 1
BindFailure ==
    /\ alive /\ server = "binding" /\ ~Drained
    /\ server' = "none"
    /\ ProcessExit(1, "uncaught")
    /\ UNCHANGED <<storeVars, cfgVars, pc, boundHost, boundPort, handlers, reqVars, sdVars, logged>>

(***************************************************************************)
(* Connections and the request callback (lines 74-84).                     *)
(***************************************************************************)
DelegateStatuses == {200}

\* after a response is finished the connection is kept alive or closed
AfterResponse(c) ==
    IF conn[c] = "busy"
    THEN \E k \in {"open", "none"} : conn' = [conn EXCEPT ![c] = k]
    ELSE UNCHANGED conn

\* the catch branch: res.statusCode = 500; res.end('Internal Server Error').
\* The status line goes out with the headers, so the assignment shows only
\* when the headers have not been sent yet.
ErrorResponseNoEnd(r, byDelegate) == [r EXCEPT !.threw = byDelegate]

ErrorResponse(r, byDelegate) ==
    [headersSent |-> TRUE,
     sentStatus  |-> IF r.headersSent THEN r.sentStatus ELSE 500,
     finished    |-> TRUE,
     threw       |-> byDelegate]

\* a client connects
Accept(c) ==
    /\ alive /\ ~Drained /\ server = "listening"
    /\ conn[c] = "none" /\ handler[c] = "idle"
    /\ conn' = [conn EXCEPT ![c] = "open"]
    /\ UNCHANGED <<storeVars, cfgVars, srvVars, handler, res, sdVars, prVars>>

\* a request arrives on an open connection: the callback parses the URL and
\* calls handle(); a throw from parse() goes straight to the catch branch
Request(c, urlOk) ==
    /\ alive /\ ~Drained
    /\ conn[c] = "open" /\ handler[c] = "idle"
    /\ IF urlOk
       THEN /\ handler' = [handler EXCEPT ![c] = "awaiting"]
            /\ conn' = [conn EXCEPT ![c] = "busy"]
            /\ res' = [res EXCEPT ![c] = NoResponse]
            /\ UNCHANGED logged
       ELSE /\ res' = [res EXCEPT ![c] = ErrorResponse(NoResponse, FALSE)]
            /\ Log({"request_error"})
            /\ \E k \in {"open", "none"} : conn' = [conn EXCEPT ![c] = k]
            /\ UNCHANGED handler
    /\ UNCHANGED <<storeVars, cfgVars, srvVars, sdVars, alive, exits>>

\* the delegate sends the response head and keeps working
DelegateWriteHead(c, s) ==
    /\ alive /\ ~Drained
    /\ handler[c] = "awaiting" /\ ~res[c].headersSent
    /\ res' = [res EXCEPT ![c].headersSent = TRUE, ![c].sentStatus = s]
    /\ UNCHANGED <<storeVars, cfgVars, srvVars, conn, handler, sdVars, prVars>>

\* the response as the delegate leaves it when handle() resolves: written
\* with the delegate's status s (unless the head went out earlier) and ended
DelegateResponse(r, s) ==
    [headersSent |-> TRUE,
     sentStatus  |-> IF r.headersSent THEN r.sentStatus ELSE s,
     finished    |-> TRUE,
     threw       |-> FALSE]

\* the try block after await handle(...) returns: the callback has no
\* statement left, it touches neither res nor the log
AfterHandleWrites500(r) == [r EXCEPT !.sentStatus = 500]

AfterHandle(r) == r

\* handle() resolves, the delegate having written and ended the response
DelegateSucceed(c, s) ==
    /\ alive /\ ~Drained
    /\ handler[c] = "awaiting"
    /\ res' = [res EXCEPT ![c] = AfterHandle(DelegateResponse(res[c], s))]
    /\ handler' = [handler EXCEPT ![c] = "idle"]
    /\ AfterResponse(c)
    /\ UNCHANGED <<storeVars, cfgVars, srvVars, sdVars, prVars>>

\* handle() throws or rejects: the catch branch answers
DelegateFail(c) ==
    /\ alive /\ ~Drained
    /\ handler[c] = "awaiting"
    /\ res' = [res EXCEPT ![c] = ErrorResponse(res[c], TRUE)]
    /\ handler' = [handler EXCEPT ![c] = "idle"]
    /\ AfterResponse(c)
    /\ Log({"request_error"})
    /\ UNCHANGED <<storeVars, cfgVars, srvVars, sdVars, alive, exits>>

\* the connection ends: the client closes or aborts it, or it times out
ConnClose(c) ==
    /\ alive /\ ~Drained
    /\ conn[c] # "none"
    /\ conn' = [conn EXCEPT ![c] = "none"]
    /\ UNCHANGED <<storeVars, cfgVars, srvVars, handler, res, sdVars, prVars>>

(***************************************************************************)
(* Shutdown (lines 97-111).                                                *)
(***************************************************************************)
SigNo(sig) == IF sig = "SIGTERM" THEN 15 ELSE 2

Signals == {"SIGTERM", "SIGINT"}

\* server.close(cb): the listening handle is closed, cb is registered on
\* 'close', and connections with no request in progress are closed (Node 19
\* and later) or left to the client (Node 18; a connection still sending its
\* request or upgraded is left open by every version)
ServerCloseKeepsListening ==
    /\ server' = server
    /\ closeCallbacks' = closeCallbacks + 1
    /\ UNCHANGED conn

ServerClose ==
    /\ server' = IF server = "listening" THEN "closing" ELSE server
    /\ closeCallbacks' = closeCallbacks + 1
    /\ \E kept \in SUBSET {c \in Conns : conn[c] = "open"} :
         conn' = [c \in Conns |->
                    IF conn[c] = "open" /\ c \notin kept THEN "none" ELSE conn[c]]

ShutdownNoTimer(sig) ==
    /\ Log({"signal_received"})
    /\ ServerClose
    /\ timers' = timers

\* shutdown() that clears the pending timer before arming a new one
ShutdownRestartsTimer(sig) ==
    /\ Log({"signal_received"})
    /\ ServerClose
    /\ timers' = <<signals + 1>>

\* setTimeout arms one more timer and clears none; all timers have the same
\* delay, so they fall due in the order they were armed
Shutdown(sig) ==
    /\ Log({"signal_received"})
    /\ ServerClose
    /\ timers' = Append(timers, signals + 1)

\* a termination signal is delivered: shutdown() when the handlers are
\* registered, the default disposition (death by the signal) before that
Signal(sig) ==
    /\ alive /\ ~Drained
    /\ signals < MaxSignals
    /\ signals' = signals + 1
    /\ IF handlers
       THEN /\ Shutdown(sig)
            /\ drainStart' = IF closeCallbacks = 0
                             THEN [state |-> ShutdownState,
                                   inFlight |-> Cardinality(InFlight)]
                             ELSE drainStart
            /\ UNCHANGED <<alive, exits>>
       ELSE /\ ProcessExit(128 + SigNo(sig), "killed")
            /\ UNCHANGED <<server, closeCallbacks, conn, timers, logged, drainStart>>
    /\ UNCHANGED <<storeVars, cfgVars, pc, boundHost, boundPort, handlers, handler, res>>

\* the 'close' event runs the callback given to server.close
ServerClosed ==
    /\ Drained
    /\ Log({"server_closed"})
    /\ ProcessExit(0, "close")
    /\ UNCHANGED <<storeVars, cfgVars, srvVars, reqVars, sdVars>>

\* a grace timer fires
GraceTimerFire ==
    /\ alive /\ ~Drained
    /\ Len(timers) > 0
    /\ timers' = Tail(timers)
    /\ Log({"forced"})
    /\ ProcessExit(1, "grace")
    /\ UNCHANGED <<storeVars, cfgVars, srvVars, reqVars, closeCallbacks, signals, drainStart>>

(***************************************************************************)
(* The store's action (useActiveIndexStore.js line 5).                     *)
(***************************************************************************)
\* setActiveIndex(index): set({ activeIndex: index })
SetActiveIndex(index) ==
    /\ Len(calls) < MaxCalls
    /\ store' = SetState(store, Partial(index))
    /\ calls' = Append(calls, index)
    /\ UNCHANGED <<cfgVars, srvVars, reqVars, sdVars, prVars>>

(***************************************************************************)
(* Specifications.                                                         *)
(***************************************************************************)
AcceptAny        == \E c \in Conns : Accept(c)
RequestAny       == \E c \in Conns, urlOk \in BOOLEAN : Request(c, urlOk)
DelegateWriteAny == \E c \in Conns, s \in DelegateStatuses : DelegateWriteHead(c, s)
DelegateOkAny    == \E c \in Conns, s \in DelegateStatuses : DelegateSucceed(c, s)
DelegateFailAny  == \E c \in Conns : DelegateFail(c)
ConnCloseAny     == \E c \in Conns : ConnClose(c)
SignalAny        == \E sig \in Signals : Signal(sig)

NextConfig == PrepareRejected \/ PrepareResolved \/ BindSuccess \/ BindFailure

Next ==
    \/ PrepareRejected
    \/ PrepareResolved
    \/ BindSuccess
    \/ BindFailure
    \/ AcceptAny
    \/ RequestAny
    \/ DelegateWriteAny
    \/ DelegateOkAny
    \/ DelegateFailAny
    \/ ConnCloseAny
    \/ SignalAny
    \/ ServerClosed
    \/ GraceTimerFire

Spec == Init /\ [][Next]_vars

\* the event loop runs a due timer and a scheduled 'close' event
SpecLive == Spec /\ WF_vars(GraceTimerFire) /\ WF_vars(ServerClosed)

SpecConfig == InitConfig /\ [][NextConfig]_vars

NextStore == \E index \in IndexArgs : SetActiveIndex(index)

\* the store alone: the client runs it, whatever the server process does
SpecStore == InitStore /\ [][NextStore]_vars

(***************************************************************************)
(* Properties.                                                             *)
(***************************************************************************)
Terminated == Len(exits) > 0

ExitCode == exits[1].code

ExitVia == exits[1].via

C2_SecondSignalNoOp ==
    [][(ShutdownState = "Draining" /\ signals' = signals + 1)
       => /\ timers' = timers
          /\ closeCallbacks' = closeCallbacks
          /\ ShutdownState' = ShutdownState]_vars

\* C3: a process that was Running with no request in flight when the
\* termination signal came exits with status 0, never through the grace timer.
C3_IdleSignalExitsZero ==
    (Terminated /\ drainStart.state = "Running" /\ drainStart.inFlight = 0)
    => (ExitCode = 0 /\ ExitVia = "close")

\* C4: with one request in flight at the termination signal, the process
\* exits with status 0 when the request has completed before the grace timer
\* fires, and with a non-zero status when the timer fires first.
C4_OneInFlightExit ==
    (Terminated /\ drainStart.state = "Running" /\ drainStart.inFlight = 1)
    => /\ InFlight = {} => ExitCode = 0
       /\ ExitVia = "grace" => ExitCode # 0

\* C5: an exit with status 0 after a termination signal happens only when no
\* request handler is executing; an exit caused by a bind failure, a prepare()
\* failure or the grace timer has a non-zero status.
C5_ExitCodes ==
    Terminated =>
        /\ (ExitCode = 0 /\ signals > 0) => InFlight = {}
        /\ ExitVia \in {"uncaught", "catch", "grace"} => ExitCode # 0

StateRank(st) ==
    CASE st = "Starting"   -> 0
      [] st = "Running"    -> 1
      [] st = "Draining"   -> 2
      [] st = "Terminated" -> 3

\* C6: the shutdown state never moves backwards, Running is left only for
\* Draining, Draining is entered only by a termination signal handled by
\* shutdown(), and nothing changes once the process has terminated.
C6_MonotonicShutdown ==
    [][/\ StateRank(ShutdownState') >= StateRank(ShutdownState)
       /\ ShutdownState = "Running" => ShutdownState' \in {"Running", "Draining"}
       /\ (ShutdownState # "Draining" /\ ShutdownState' = "Draining")
            => (handlers /\ signals' = signals + 1)
       /\ ShutdownState = "Terminated" => UNCHANGED vars]_vars

C6_Witness ==
    /\ Terminated /\ ExitVia = "close" /\ drainStart.state = "Running"
    /\ signals = MaxSignals

\* the step in which the delegate call of slot c throws or rejects
DelegateThrows(c) == handler[c] = "awaiting" /\ res'[c].threw

\* what a delegate failure leaves alone: the process, the shutdown state and
\* the other connections and requests
FailureContained(c) ==
    /\ alive' /\ exits' = exits
    /\ ShutdownState' = ShutdownState
    /\ \A d \in Conns \ {c} :
         handler'[d] = handler[d] /\ res'[d] = res[d] /\ conn'[d] = conn[d]
    /\ (conn'[c] = "open" => handler'[c] = "idle")

C8_DevBindsLocalhost ==
    (server = "listening" /\ dev) => boundHost = "localhost"

\* C8 (amended): in development mode the hostname given to the Next.js app is
\* always "localhost"; the listening socket is bound to HOSTNAME when that is
\* set and non-empty and to 0.0.0.0 otherwise, in either mode.
C8_DevAppHostLocalhost ==
    /\ dev => appHostname = "localhost"
    /\ server = "listening" =>
         boundHost = (IF envHOSTNAME.defined /\ envHOSTNAME.value # ""
                      THEN envHOSTNAME.value ELSE "0.0.0.0")

C8_Witness ==
    /\ dev /\ server = "listening"
    /\ envHOSTNAME = Str("example.com")
    /\ appHostname = "localhost" /\ boundHost = "example.com"

C10_PortBound ==
    server = "listening" =>
        /\ \A n \in PortSamples :
             envPORT = Chars(NumberToString(n)) => boundPort = n
        /\ ~envPORT.defined => boundPort = 3000

C10_Witness ==
    /\ server = "listening"
    /\ envPORT = Chars(<<"6", "5", "5", "3", "5">>)
    /\ boundPort = 65535

\* a PORT text that reads as an integer in 1..65535: optional leading blanks
\* and "+", then digits only
WellFormedPort(s) ==
    LET t    == SkipSpace(s)
        body == IF Len(t) > 0 /\ Head(t) = "+" THEN Tail(t) ELSE t
    IN  /\ Len(body) > 0
        /\ \A i \in 1..Len(body) : IsDigit(body[i])
        /\ DigitPrefix(body, 0) >= 1
        /\ DigitPrefix(body, 0) <= 65535

\* C11: with a PORT that is present (and not empty) but does not read as an
\* integer in 1..65535, no socket is bound and, once prepare() is over, the process has
\* exited with a non-zero status.
C11_MalformedPortFatal ==
    (envPORT.defined /\ Len(envPORT.value) > 0 /\ ~WellFormedPort(envPORT.value))
    => /\ server # "listening" /\ boundPort = -1
       /\ pc # "preparing" => (pc = "failed" /\ Terminated /\ ExitCode # 0)

\* C12: while prepare() is pending there is no server, no connection and no
\* delegated request; a failed startup (prepare() rejected) has ended the
\* process with a non-zero status, with no socket bound and nothing accepted.
C12_PrepareGate ==
    /\ pc = "preparing" =>
         /\ server = "none" /\ boundPort = -1
         /\ \A c \in Conns :
              conn[c] = "none" /\ handler[c] = "idle" /\ res[c] = NoResponse
    /\ pc = "failed" =>
         /\ Terminated /\ ~alive /\ ExitCode # 0
         /\ server = "none" /\ boundPort = -1
         /\ \A c \in Conns : conn[c] = "none" /\ handler[c] = "idle"

C12_Witness ==
    /\ pc = "failed" /\ ~envPORT.defined
    /\ Terminated /\ ExitCode = 1 /\ "error_starting" \in logged

\* the bind of the listening socket has failed
BindFailed == pc = "started" /\ server = "none"

\* C13: a bind failure is logged by the listen callback's error branch and
\* ends the process with a non-zero status, the server never having been ready.
C13_BindFailureLogged ==
    BindFailed =>
        /\ "failed_to_start" \in logged
        /\ Terminated /\ ExitCode # 0
        /\ "ready" \notin logged

\* C14: once Draining has begun the server is not listening and no connection
\* is accepted; shutdown() leaves every handler in flight, its response and its
\* connection as they are; and while the process lives such a handler can
\* still complete.
C14_DrainStopsAccepting ==
    /\ [][/\ ShutdownState \in {"Draining", "Terminated"}
             => \A c \in Conns : conn[c] = "none" => conn'[c] = "none"
          /\ (handlers /\ signals' = signals + 1)
             => /\ handler' = handler /\ res' = res
                /\ \A c \in Conns : conn[c] = "busy" => conn'[c] = "busy"]_vars
    /\ [](ShutdownState = "Draining" => server # "listening")
    /\ []((ShutdownState = "Draining" /\ ~Drained)
          => \A c \in InFlight : ENABLED DelegateSucceed(c, 200))

C14_Witness ==
    /\ ShutdownState = "Draining" /\ alive
    /\ drainStart.state = "Running" /\ drainStart.inFlight = 1
    /\ InFlight = {}
    /\ \E c \in Conns : res[c].finished /\ ~res[c].threw /\ conn[c] = "open"

\* C15: while Draining, the drain-complete condition (the 'close' event is
\* due) holds exactly when no request handler is executing.
C15_DrainIffNoHandler ==
    (ShutdownState = "Draining" /\ alive) => (Drained <=> InFlight = {})

\* C16: the process exits at most once; after an exit with status 0 no forced
\* shutdown is logged and no status 1 follows, and after a forced exit the
\* close callback has not run.
C16_ExitsOnce ==
    /\ Len(exits) <= 1
    /\ ~("forced" \in logged /\ "server_closed" \in logged)
    /\ Terminated =>
         /\ ExitVia = "close" => (ExitCode = 0 /\ "forced" \notin logged)
         /\ ExitVia = "grace" => (ExitCode = 1 /\ "server_closed" \notin logged)

C16_Witness ==
    /\ Terminated /\ ExitVia = "close" /\ ExitCode = 0
    /\ Len(timers) = MaxSignals

\* the step in which the delegate call of slot c resolves
DelegateResolves(c) ==
    handler[c] = "awaiting" /\ handler'[c] = "idle" /\ ~res'[c].threw

C18_ProductionBindHost ==
    (server = "listening" /\ ~dev) =>
        /\ (envHOSTNAME.defined /\ envHOSTNAME.value # "")
             => boundHost = envHOSTNAME.value
        /\ ~envHOSTNAME.defined => boundHost = "0.0.0.0"

C18_Witness ==
    /\ server = "listening" /\ ~dev
    /\ ~envHOSTNAME.defined /\ boundHost = "0.0.0.0"

\* C19: while Draining the oldest pending grace timer is the one armed by the
\* first signal; a later signal only appends a timer; and the timer that
\* forces the exit is the first one.
C19_FirstTimerFixesDeadline ==
    [][/\ ShutdownState' = "Draining"
            => (Len(timers') >= 1 /\ Head(timers') = 1)
       /\ (ShutdownState = "Draining" /\ signals' = signals + 1)
            => (Len(timers') = Len(timers) + 1
                /\ SubSeq(timers', 1, Len(timers)) = timers)
       /\ (~Terminated /\ Terminated' /\ exits'[1].via = "grace")
            => (Head(timers) = 1 /\ timers' = Tail(timers))]_vars

C19_Witness ==
    /\ Terminated /\ ExitVia = "grace"
    /\ signals = 2 /\ timers = <<2>>

\* C20: the signal handlers exist only once prepare() has succeeded and
\* listen() has been called; every signal delivered from then on runs
\* shutdown() exactly once; a signal delivered during prepare() kills the
\* process without a drain, a close callback or a grace timer.
C20_HandlersAfterListen ==
    /\ handlers => pc = "started"
    /\ pc = "preparing" =>
         (~handlers /\ closeCallbacks = 0 /\ timers = <<>> /\ drainStart = NoDrain)
    /\ handlers => closeCallbacks = signals
    /\ (Terminated /\ ExitVia = "killed") =>
         /\ pc = "preparing"
         /\ closeCallbacks = 0 /\ timers = <<>> /\ drainStart = NoDrain
         /\ "signal_received" \notin logged

C20_Witness ==
    /\ Terminated /\ ExitVia = "killed" /\ pc = "preparing"
    /\ signals = 1 /\ timers = <<>>

\* C21: in the active-index store, activeIndex is 2 until setActiveIndex is
\* called and afterwards is the argument of the most recent call, whatever
\* that argument is (negative, large, not a number, undefined); the store
\* keeps exactly its two fields and setActiveIndex itself is never changed.
C21_ActiveIndexLastArgument ==
    /\ store["activeIndex"] =
         (IF calls = <<>> THEN JsNumber(2) ELSE calls[Len(calls)])
    /\ DOMAIN store = {"activeIndex", "setActiveIndex"}
    /\ store["setActiveIndex"] = JsFunction("setActiveIndex")

C21_Witness ==
    /\ Len(calls) = 3
    /\ calls[1] = JsNumber(7) /\ calls[2] = JsUndefined /\ calls[3] = JsNumber(-1)
    /\ store["activeIndex"] = JsNumber(-1)

====
